---- MODULE Spec2Model ----
(***************************************************************************)
(* Model of slidev-mcp-apps: the three generation tools of src/src/index.ts *)
(* (generateSlide, generateSlidePDF, generateSlidePPTX), the staging        *)
(* directory they work in, the renderer subprocess they wait for, and the   *)
(* mini-app controller of src/src/mcp-app.ts that calls them.               *)
(*                                                                          *)
(* Strings are sequences of one-character strings (a message constant is a  *)
(* one-token sequence), file contents are sequences of bytes, a path is a   *)
(* sequence of names, so that trim, split, endsWith, parseInt, join and the *)
(* base64 conversion are computed and not assumed.                          *)
(***************************************************************************)
EXTENDS Integers, Sequences, FiniteSets, TLC

(* ------------------------------ bounds -------------------------------- *)

\* Tool invocations the server accepts in one run of the full system.
MaxInv == 2
\* Image files one render leaves, outside the image-collection specification.
MaxImages == 1
\* Image files one render leaves in the image-collection specification.
MaxSlides == 11

(* --------------------------- input samples ---------------------------- *)

\* Document texts: empty, blank, plain, and one that trim() changes and that
\* holds a line break.
Markdowns == { <<>>, <<" ">>, <<"a">>, <<" ", "a", "\n", "b">> }

\* The texts the user types in the full system.
TypedTexts == { <<" ">>, <<" ", "a", "\n", "b">> }

\* The text the host sends in the full system.
HostTexts == { <<" ", "a", "\n", "b">> }

\* Two of the five themes of the z.enum.
Themes == { "default", "seriph" }

Ops == { "generateSlide", "generateSlidePDF", "generateSlidePPTX" }

UUIDNames == << <<"u","1">>, <<"u","2">>, <<"u","3">>, <<"u","4">>, <<"u","5">> >>

\* The identifiers randomUUID can return: one more than the run can use.
UUIDs == { UUIDNames[k] : k \in 1..(MaxInv + 1) }

(* ------------------------------ strings ------------------------------- *)

Digits == << "0", "1", "2", "3", "4", "5", "6", "7", "8", "9" >>

IsDigit(c) == \E k \in 1..Len(Digits) : Digits[k] = c

DigitVal(c) == (CHOOSE k \in 1..Len(Digits) : Digits[k] = c) - 1

IsSpace(c) == c \in { " ", "\n" }

RECURSIVE TrimStart(_)
TrimStart(s) ==
    IF s = <<>> THEN <<>>
    ELSE IF IsSpace(Head(s)) THEN TrimStart(Tail(s)) ELSE s

RECURSIVE TrimEnd(_)
TrimEnd(s) ==
    IF s = <<>> THEN <<>>
    ELSE IF IsSpace(s[Len(s)]) THEN TrimEnd(SubSeq(s, 1, Len(s) - 1)) ELSE s

\* String.prototype.trim
Trim(s) == TrimEnd(TrimStart(s))

\* String.prototype.endsWith
EndsWith(s, suffix) ==
    /\ Len(s) >= Len(suffix)
    /\ SubSeq(s, Len(s) - Len(suffix) + 1, Len(s)) = suffix

\* s.split(sep)[0] for a one-character separator
RECURSIVE SplitFirst(_, _)
SplitFirst(s, sep) ==
    IF s = <<>> \/ Head(s) = sep THEN <<>>
    ELSE <<Head(s)>> \o SplitFirst(Tail(s), sep)

RECURSIVE LeadingDigits(_)
LeadingDigits(s) ==
    IF s = <<>> \/ ~IsDigit(Head(s)) THEN <<>>
    ELSE <<Head(s)>> \o LeadingDigits(Tail(s))

RECURSIVE DigitsValue(_)
DigitsValue(ds) ==
    IF ds = <<>> THEN 0
    ELSE 10 * DigitsValue(SubSeq(ds, 1, Len(ds) - 1)) + DigitVal(ds[Len(ds)])

\* parseInt: the value of the leading decimal digits, NaN when there are none
ParseInt(s) ==
    LET ds == LeadingDigits(TrimStart(s))
    IN  IF ds = <<>> THEN [nan |-> TRUE, val |-> 0]
        ELSE [nan |-> FALSE, val |-> DigitsValue(ds)]

\* Code unit order of the characters file names are made of
CodeOrder == << "-", ".", "0", "1", "2", "3", "4", "5", "6", "7", "8", "9",
                "a", "d", "e", "f", "g", "i", "l", "m", "n", "o", "p", "r",
                "s", "t", "u", "x" >>

CharCode(c) == CHOOSE k \in 1..Len(CodeOrder) : CodeOrder[k] = c

\* a < b in code unit order (the order of Array.prototype.sort without a comparator)
RECURSIVE LexLess(_, _)
LexLess(a, b) ==
    IF b = <<>> THEN FALSE
    ELSE IF a = <<>> THEN TRUE
    ELSE IF Head(a) = Head(b) THEN LexLess(Tail(a), Tail(b))
    ELSE CharCode(Head(a)) < CharCode(Head(b))

\* Decimal digits of k, for the names the renderer gives its image files
RECURSIVE DigitsOf(_)
DigitsOf(k) ==
    IF k < 10 THEN <<Digits[k + 1]>>
    ELSE DigitsOf(k \div 10) \o <<Digits[(k % 10) + 1]>>

\* UTF-8 byte of a character of the document samples
CharByte(c) ==
    CASE c = " " -> 32
      [] c = "a" -> 97
      [] c = "b" -> 98
      [] c = "\n" -> 10

UTF8(s) == [k \in 1..Len(s) |-> CharByte(s[k])]

(* ------------------------------ base64 -------------------------------- *)

B64Alphabet ==
    << "A", "B", "C", "D", "E", "F", "G", "H", "I", "J", "K", "L", "M",
       "N", "O", "P", "Q", "R", "S", "T", "U", "V", "W", "X", "Y", "Z",
       "a", "b", "c", "d", "e", "f", "g", "h", "i", "j", "k", "l", "m",
       "n", "o", "p", "q", "r", "s", "t", "u", "v", "w", "x", "y", "z",
       "0", "1", "2", "3", "4", "5", "6", "7", "8", "9", "+", "/" >>

B64Char(v) == B64Alphabet[v + 1]

B64Val(c) == (CHOOSE k \in 1..Len(B64Alphabet) : B64Alphabet[k] = c) - 1

\* Buffer.prototype.toString("base64"): three bytes to four characters, padded
RECURSIVE Base64Encode(_)
Base64Encode(bytes) ==
    IF bytes = <<>> THEN <<>>
    ELSE IF Len(bytes) = 1 THEN
        << B64Char(bytes[1] \div 4), B64Char((bytes[1] % 4) * 16), "=", "=" >>
    ELSE IF Len(bytes) = 2 THEN
        << B64Char(bytes[1] \div 4),
           B64Char((bytes[1] % 4) * 16 + bytes[2] \div 16),
           B64Char((bytes[2] % 16) * 4), "=" >>
    ELSE
        << B64Char(bytes[1] \div 4),
           B64Char((bytes[1] % 4) * 16 + bytes[2] \div 16),
           B64Char((bytes[2] % 16) * 4 + bytes[3] \div 64),
           B64Char(bytes[3] % 64) >>
        \o Base64Encode(SubSeq(bytes, 4, Len(bytes)))

\* The standard decoding, used to state what a payload carries
RECURSIVE Base64Decode(_)
Base64Decode(chars) ==
    IF Len(chars) < 4 THEN <<>>
    ELSE
        LET a == B64Val(chars[1])
            b == B64Val(chars[2])
            rest == Base64Decode(SubSeq(chars, 5, Len(chars)))
        IN  IF chars[3] = "=" THEN << a * 4 + b \div 16 >>
            ELSE IF chars[4] = "=" THEN
                << a * 4 + b \div 16,
                   (b % 16) * 16 + B64Val(chars[3]) \div 4 >>
            ELSE
                << a * 4 + b \div 16,
                   (b % 16) * 16 + B64Val(chars[3]) \div 4,
                   (B64Val(chars[3]) % 4) * 64 + B64Val(chars[4]) >> \o rest

(* ---------------------------- file system ------------------------------ *)

\* A node of the file system: a directory with its entries in directory
\* order, or a file with its bytes.
DirNode(entries) == [kind |-> "dir", entries |-> entries, data |-> <<>>]

FileNode(data) == [kind |-> "file", entries |-> <<>>, data |-> data]

\* path.join(dir, name)
Join(dir, name) == Append(dir, name)

Parent(p) == SubSeq(p, 1, Len(p) - 1)

BaseName(p) == p[Len(p)]

IsPrefix(p, q) == Len(p) <= Len(q) /\ SubSeq(q, 1, Len(p)) = p

\* The state one handler threads through its file system calls: the file
\* system, the paths it has read or written, and the error thrown (ok = FALSE
\* once a call has thrown; later calls are then skipped).
FsStart(f) == [fs |-> f, touched |-> {}, ok |-> TRUE, msg |-> <<>>]

Touch(st, p) == [st EXCEPT !.touched = @ \cup {p}]

Throw(st, msg) == [st EXCEPT !.ok = FALSE, !.msg = msg]

ExistsSync(f, p) == p \in DOMAIN f

\* Creates the one directory p in an existing parent directory
MkdirOne(f, p) ==
    (p :> DirNode(<<>>)) @@
    [q \in DOMAIN f |->
        IF q = Parent(p) THEN DirNode(Append(f[q].entries, BaseName(p))) ELSE f[q]]

\* mkdirSync(p, { recursive: true }): creates the missing ancestors and p, and
\* succeeds without a change when p is already a directory
RECURSIVE MkdirRecursive(_, _)
MkdirRecursive(st, p) ==
    IF ~st.ok THEN st
    ELSE IF p \in DOMAIN st.fs THEN
        IF st.fs[p].kind = "dir" THEN st
        ELSE Throw(st, <<"EEXIST: file already exists, mkdir">>)
    ELSE
        LET up == MkdirRecursive(st, Parent(p))
        IN  IF ~up.ok THEN up
            ELSE [up EXCEPT !.fs = MkdirOne(up.fs, p)]

\* Mutant: a refused mkdirSync returns without a throw
MkdirSync_unchecked(st, p, diskOk) ==
    IF ~st.ok THEN st
    ELSE IF ~diskOk THEN Touch(st, p)
    ELSE MkdirRecursive(Touch(st, p), p)

\* mkdirSync(p, options) on a disk that accepts the call (diskOk) or refuses it
MkdirSync(st, p, diskOk) ==
    IF ~st.ok THEN st
    ELSE IF ~diskOk THEN Throw(Touch(st, p), <<"EACCES: permission denied, mkdir">>)
    ELSE MkdirRecursive(Touch(st, p), p)

\* writeFileSync(p, data)
WriteFileSync(st, p, data) ==
    IF ~st.ok THEN st
    ELSE IF Parent(p) \notin DOMAIN st.fs \/ st.fs[Parent(p)].kind # "dir" THEN
        Throw(Touch(st, p), <<"ENOENT: no such file or directory, open">>)
    ELSE IF p \in DOMAIN st.fs THEN
        IF st.fs[p].kind = "dir" THEN
            Throw(Touch(st, p), <<"EISDIR: illegal operation on a directory, open">>)
        ELSE [Touch(st, p) EXCEPT !.fs = [@ EXCEPT ![p] = FileNode(data)]]
    ELSE
        [Touch(st, p) EXCEPT !.fs =
            (p :> FileNode(data)) @@
            [q \in DOMAIN st.fs |->
                IF q = Parent(p)
                THEN DirNode(Append(st.fs[q].entries, BaseName(p)))
                ELSE st.fs[q]]]

\* Mutant: a missing directory lists as an empty one
ReaddirSync_lenient(st, p) ==
    IF ~st.ok THEN [st |-> st, names |-> <<>>]
    ELSE IF p \notin DOMAIN st.fs \/ st.fs[p].kind # "dir"
    THEN [st |-> Touch(st, p), names |-> <<>>]
    ELSE [st |-> Touch(st, p), names |-> st.fs[p].entries]

\* readdirSync(p): the entries in directory order, or a throw
ReaddirSync(st, p) ==
    IF ~st.ok THEN [st |-> st, names |-> <<>>]
    ELSE IF p \notin DOMAIN st.fs THEN
        [st |-> Throw(Touch(st, p), <<"ENOENT: no such file or directory, scandir">>),
         names |-> <<>>]
    ELSE IF st.fs[p].kind # "dir" THEN
        [st |-> Throw(Touch(st, p), <<"ENOTDIR: not a directory, scandir">>),
         names |-> <<>>]
    ELSE [st |-> Touch(st, p), names |-> st.fs[p].entries]

\* readFileSync(p): the bytes, or a throw
ReadFileSync(st, p) ==
    IF ~st.ok THEN [st |-> st, data |-> <<>>]
    ELSE IF p \notin DOMAIN st.fs THEN
        [st |-> Throw(Touch(st, p), <<"ENOENT: no such file or directory, open">>),
         data |-> <<>>]
    ELSE IF st.fs[p].kind # "file" THEN
        [st |-> Throw(Touch(st, p), <<"EISDIR: illegal operation on a directory, read">>),
         data |-> <<>>]
    ELSE [st |-> Touch(st, p), data |-> st.fs[p].data]

(* ------------------------- staging directory --------------------------- *)

\* join(projectDir, ".slidev-work"), relative to the project directory
WorkDir == << <<".", "s", "l", "i", "d", "e", "v", "-", "w", "o", "r", "k">> >>

\* Mutant: one directory for every invocation
ExecutionDir_shared(id) == Join(WorkDir, <<"r", "u", "n">>)

\* join(workDir, executionId)
ExecutionDir(id) == Join(WorkDir, id)

SlidesMd == <<"s", "l", "i", "d", "e", "s", ".", "m", "d">>

SlidesExport == <<"s", "l", "i", "d", "e", "s", "-", "e", "x", "p", "o", "r", "t">>

DotPng == <<".", "p", "n", "g">>

\* The output file of a document format: slides-export.pdf, slides-export.pptx
DocumentName(op) ==
    IF op = "generateSlidePDF" THEN SlidesExport \o <<".", "p", "d", "f">>
    ELSE SlidesExport \o <<".", "p", "p", "t", "x">>

\* The try block up to execSync: the work directory, the execution directory
\* and slides.md
Stage(f, id, markdown, diskOk) ==
    LET s0 == Touch(FsStart(f), WorkDir)
        s1 == IF ~ExistsSync(f, WorkDir) THEN MkdirSync(s0, WorkDir, diskOk) ELSE s0
        s2 == MkdirSync(s1, ExecutionDir(id), diskOk)
    IN  WriteFileSync(s2, Join(ExecutionDir(id), SlidesMd), UTF8(markdown))

(* --------------------------- response parts ---------------------------- *)

TextPart(t) == [type |-> "text", text |-> t]

ImagePart(d) == [type |-> "image", data |-> d, mimeType |-> "image/png"]

ResourcePart(uri, blob, mime) ==
    [type |-> "resource", resource |-> [uri |-> uri, blob |-> blob, mimeType |-> mime]]

MimeType(op) ==
    IF op = "generateSlidePDF" THEN "application/pdf"
    ELSE "application/vnd.openxmlformats-officedocument.presentationml.presentation"

FailurePrefix(op) ==
    CASE op = "generateSlide" -> <<"Failed to generate slides: ">>
      [] op = "generateSlidePDF" -> <<"Failed to generate PDF: ">>
      [] op = "generateSlidePPTX" -> <<"Failed to generate PPTX: ">>

\* Mutant: the catch block adds the message to parts it had already built
CatchResponse_extraPart(op, errorMessage) ==
    [content |-> << TextPart(<<"partial">>), TextPart(FailurePrefix(op) \o errorMessage) >>]

\* The value a catch block returns: one text part, and no isError property
CatchResponse(op, errorMessage) ==
    [content |-> << TextPart(FailurePrefix(op) \o errorMessage) >>]

\* JSON.stringify of one string: the quotes, and the escapes of the characters
\* that need one
RECURSIVE JsonEscape(_)
JsonEscape(s) ==
    IF s = <<>> THEN <<>>
    ELSE (CASE Head(s) = "\n" -> <<"\\", "n">>
            [] Head(s) = "\"" -> <<"\\", "\"">>
            [] Head(s) = "\\" -> <<"\\", "\\">>
            [] OTHER -> <<Head(s)>>) \o JsonEscape(Tail(s))

JsonOpen == "{\"markdown\":\""

JsonMid == "\",\"theme\":\""

JsonClose == "\"}"

\* JSON.stringify({ markdown, theme })
JsonStringify(markdown, theme) ==
    <<JsonOpen>> \o JsonEscape(markdown) \o <<JsonMid, theme, JsonClose>>

RECURSIVE JsonUnescape(_)
JsonUnescape(s) ==
    IF s = <<>> THEN <<>>
    ELSE IF Head(s) = "\\" /\ Len(s) >= 2 THEN
        <<(IF s[2] = "n" THEN "\n" ELSE s[2])>> \o JsonUnescape(SubSeq(s, 3, Len(s)))
    ELSE <<Head(s)>> \o JsonUnescape(Tail(s))

\* JSON.parse of a text produced by JsonStringify; any other text throws
JsonParse(text) ==
    IF /\ Len(text) >= 4
       /\ text[1] = JsonOpen
       /\ text[Len(text) - 2] = JsonMid
       /\ text[Len(text)] = JsonClose
    THEN [ok |-> TRUE,
          markdown |-> JsonUnescape(SubSeq(text, 2, Len(text) - 3)),
          theme |-> text[Len(text) - 1]]
    ELSE [ok |-> FALSE, markdown |-> <<>>, theme |-> ""]

(* -------------------------- output collection -------------------------- *)

\* Mutant: the order of sort() without the comparator
FileOrder_lexical(a, b) == IF LexLess(a, b) THEN -1 ELSE IF LexLess(b, a) THEN 1 ELSE 0

\* The comparator of the sort: numA - numB; a NaN result counts as 0
FileOrder(a, b) ==
    LET numA == ParseInt(SplitFirst(a, "."))
        numB == ParseInt(SplitFirst(b, "."))
    IN  IF numA.nan \/ numB.nan THEN 0 ELSE numA.val - numB.val

\* Array.prototype.filter(file => file.endsWith(".png"))
RECURSIVE FilterPng(_)
FilterPng(names) ==
    IF names = <<>> THEN <<>>
    ELSE IF EndsWith(Head(names), DotPng)
         THEN <<Head(names)>> \o FilterPng(Tail(names))
         ELSE FilterPng(Tail(names))

RECURSIVE InsertSorted(_, _)
InsertSorted(x, sorted) ==
    IF sorted = <<>> THEN <<x>>
    ELSE IF FileOrder(sorted[Len(sorted)], x) <= 0 THEN Append(sorted, x)
    ELSE Append(InsertSorted(x, SubSeq(sorted, 1, Len(sorted) - 1)),
                sorted[Len(sorted)])

\* Array.prototype.sort(comparator): stable
RECURSIVE SortFiles(_)
SortFiles(names) ==
    IF names = <<>> THEN <<>>
    ELSE InsertSorted(names[Len(names)], SortFiles(SubSeq(names, 1, Len(names) - 1)))

\* files.map(file => image part of readFileSync(join(slidesExportDir, file)))
RECURSIVE ReadImages(_, _, _)
ReadImages(st, dir, files) ==
    IF files = <<>> \/ ~st.ok THEN [st |-> st, parts |-> <<>>]
    ELSE
        LET rd == ReadFileSync(st, Join(dir, Head(files)))
            rest == ReadImages(rd.st, dir, Tail(files))
        IN  [st |-> rest.st,
             parts |-> <<ImagePart(Base64Encode(rd.data))>> \o rest.parts]

\* generateSlide after execSync has returned: list, filter, sort, read, pack
CollectImages(f, id, markdown, theme) ==
    LET dir == Join(ExecutionDir(id), SlidesExport)
        ls == ReaddirSync(FsStart(f), dir)
        files == SortFiles(FilterPng(ls.names))
        imgs == ReadImages(ls.st, dir, files)
    IN  IF imgs.st.ok
        THEN [touched |-> imgs.st.touched,
              response |->
                [content |-> << TextPart(id), TextPart(JsonStringify(markdown, theme)) >>
                             \o imgs.parts]]
        ELSE [touched |-> imgs.st.touched,
              response |-> CatchResponse("generateSlide", imgs.st.msg)]

ProjectDir == <<"/", "a", "p", "p">>

RECURSIVE PathString(_)
PathString(p) ==
    IF p = <<>> THEN <<>> ELSE Head(p) \o (IF Len(p) = 1 THEN <<>> ELSE <<"/">>) \o PathString(Tail(p))

\* The locator of a document: absolute for the PDF, relative to the work
\* directory for the PPTX
FileUrl(op, id) ==
    IF op = "generateSlidePDF"
    THEN <<"file://">> \o ProjectDir \o <<"/">>
         \o PathString(Join(ExecutionDir(id), DocumentName(op)))
    ELSE <<"file://">> \o PathString(<<id, DocumentName(op)>>)

\* Mutant: the encoding stops at the last whole group of three bytes
DocumentBlob_wholeGroups(data) == Base64Encode(SubSeq(data, 1, 3 * (Len(data) \div 3)))

\* Buffer.prototype.toString("base64") of the document read
DocumentBlob(data) == Base64Encode(data)

\* generateSlidePDF and generateSlidePPTX after execSync has returned
CollectDocument(f, op, id) ==
    LET rd == ReadFileSync(FsStart(f), Join(ExecutionDir(id), DocumentName(op)))
    IN  IF rd.st.ok
        THEN [touched |-> rd.st.touched,
              response |->
                [content |-> << ResourcePart(FileUrl(op, id), DocumentBlob(rd.data),
                                             MimeType(op)) >>]]
        ELSE [touched |-> rd.st.touched,
              response |-> CatchResponse(op, rd.st.msg)]

\* error.message of what execSync throws
ExecErrorMessage(exit) ==
    IF exit = "nonzero" THEN <<"Command failed: slidev export">>
    ELSE <<"spawnSync /bin/sh ENOENT">>

\* The handler from the return of execSync to its own return
Collect(f, op, id, markdown, theme, exit) ==
    IF exit # "exit0"
    THEN [touched |-> {}, response |-> CatchResponse(op, ExecErrorMessage(exit))]
    ELSE IF op = "generateSlide" THEN CollectImages(f, id, markdown, theme)
    ELSE CollectDocument(f, op, id)

(* ------------------------------ renderer ------------------------------- *)

\* The renderer (slidev export) is outside the repository: it reads slides.md
\* in its working directory and leaves its output there.  Its output bytes are
\* tagged with the format, the page, the document it read and the theme it was
\* given, so that a response can be traced to the input it was rendered from.
ThemeByte(theme) == IF theme = "default" THEN 1 ELSE 2

FormatByte(op) ==
    CASE op = "generateSlide" -> 137
      [] op = "generateSlidePDF" -> 37
      [] op = "generateSlidePPTX" -> 80

RenderBytes(op, page, src, theme) == <<FormatByte(op), page>> \o src \o <<ThemeByte(theme)>>

PngName(k) == DigitsOf(k) \o DotPng

Ascending(n) == [k \in 1..n |-> PngName(k)]

Descending(n) == [k \in 1..n |-> PngName(n + 1 - k)]

Rotate(s, r) == [k \in 1..Len(s) |-> s[((k + r - 1) % Len(s)) + 1]]

RECURSIVE LexInsert(_, _)
LexInsert(x, sorted) ==
    IF sorted = <<>> THEN <<x>>
    ELSE IF LexLess(x, sorted[Len(sorted)])
    THEN Append(LexInsert(x, SubSeq(sorted, 1, Len(sorted) - 1)), sorted[Len(sorted)])
    ELSE Append(sorted, x)

RECURSIVE LexSorted(_)
LexSorted(names) ==
    IF names = <<>> THEN <<>>
    ELSE LexInsert(names[Len(names)], LexSorted(SubSeq(names, 1, Len(names) - 1)))

\* The orders in which a directory of n image files may be listed: readdirSync
\* promises none.
ListingOrders(n) ==
    { Rotate(Ascending(n), r) : r \in 0..(IF n = 0 THEN 0 ELSE n - 1) }
    \cup { Descending(n), LexSorted(Ascending(n)) }

StrayName == <<"1", ".", "m", "d">>

\* The renderer leaves the export directory with the image files, created in
\* the order `names`
RECURSIVE WriteImages(_, _, _, _, _)
WriteImages(st, dir, names, src, theme) ==
    IF names = <<>> THEN st
    ELSE
        LET name == Head(names)
            page == ParseInt(name).val
            data == IF EndsWith(name, DotPng)
                    THEN RenderBytes("generateSlide", page, src, theme)
                    ELSE src
        IN  WriteImages(WriteFileSync(st, Join(dir, name), data),
                        dir, Tail(names), src, theme)

\* What a run of the renderer that exits 0 does in its working directory cwd
RenderOutput(f, cwd, op, theme, product) ==
    LET rd == ReadFileSync(FsStart(f), Join(cwd, SlidesMd))
    IN  IF product.kind = "none" THEN rd.st
        ELSE IF op = "generateSlide" THEN
            WriteImages(MkdirRecursive(Touch(rd.st, Join(cwd, SlidesExport)),
                                       Join(cwd, SlidesExport)),
                        Join(cwd, SlidesExport), product.names, rd.data, theme)
        ELSE WriteFileSync(rd.st, Join(cwd, DocumentName(op)),
                           RenderBytes(op, 1, rd.data, theme))

\* What the renderer may leave: nothing, or its product (for the images: up to
\* maxFiles files in any listing order, with or without a file that is no image)
Products(op, maxFiles, strays) ==
    { [kind |-> "none", names |-> <<>>] } \cup
    IF op = "generateSlide"
    THEN { [kind |-> "files", names |-> (IF stray THEN <<StrayName>> ELSE <<>>) \o names] :
             names \in UNION { ListingOrders(n) : n \in 0..maxFiles }, stray \in strays }
    ELSE { [kind |-> "files", names |-> <<DocumentName(op)>>] }

(* ------------------------------- state --------------------------------- *)

VARIABLES
    inv,        \* the tool invocations the server has accepted, in order
    fs,         \* the file system under the project directory
    loop        \* the invocation whose handler holds the event loop, or 0

serverVars == <<inv, fs, loop>>

NoResponse == [content |-> <<>>]

NoProduct == [kind |-> "none", names |-> <<>>]

Callers == { "host", "regen", "pdf", "pptx" }

NewInvocation(op, markdown, theme, caller) ==
    [op |-> op, markdown |-> markdown, theme |-> theme, caller |-> caller,
     phase |-> "pending", executionId |-> <<>>, exit |-> "none",
     product |-> NoProduct, response |-> NoResponse, touched |-> {}]

Invocations == 1..Len(inv)

UsedIds == { inv[i].executionId : i \in Invocations } \ { <<>> }

\* randomUUID(): an identifier no earlier call returned (122 random bits: a
\* repeat is not modelled)
FreshIds == UUIDs \ UsedIds

\* One of them, where which one it is makes no difference
OneFreshId == { CHOOSE id \in FreshIds : TRUE }

Exits == { "exit0", "nonzero", "spawnerror" }

(* --------------------------- server actions ---------------------------- *)

\* The request of a tool call reaches the server
Accept(op, markdown, theme, caller) ==
    inv' = Append(inv, NewInvocation(op, markdown, theme, caller))

\* The handler runs from its first line into execSync, or, when staging
\* throws, through its catch block to its return.  execSync blocks the one
\* thread of the process: no other handler starts before this one returns.
\* ids are the identifiers randomUUID may return here, disks the answers of
\* the disk to mkdirSync.
Begin(i, ids, disks) ==
    /\ inv[i].phase = "pending"
    /\ loop = 0
    /\ \E id \in ids, diskOk \in disks :
        LET st == Stage(fs, id, inv[i].markdown, diskOk)
        IN  /\ fs' = st.fs
            /\ IF st.ok
               THEN /\ inv' = [inv EXCEPT ![i].phase = "exec",
                                          ![i].executionId = id,
                                          ![i].touched = st.touched]
                    /\ loop' = i
               ELSE /\ inv' = [inv EXCEPT ![i].phase = "returned",
                                          ![i].executionId = id,
                                          ![i].touched = st.touched,
                                          ![i].response = CatchResponse(inv[i].op, st.msg)]
                    /\ loop' = 0


\* The renderer subprocess ends: execSync returns (exit 0, with what the
\* renderer left in its working directory) or throws
RendererExit(i, exits, maxFiles, strays) ==
    /\ inv[i].phase = "exec"
    /\ \E exit \in exits :
        IF exit = "exit0"
        THEN \E product \in Products(inv[i].op, maxFiles, strays) :
                LET st == RenderOutput(fs, ExecutionDir(inv[i].executionId),
                                       inv[i].op, inv[i].theme, product)
                IN  /\ fs' = st.fs
                    /\ inv' = [inv EXCEPT ![i].phase = "exited",
                                          ![i].exit = exit,
                                          ![i].product = product,
                                          ![i].touched = @ \cup st.touched]
        ELSE /\ fs' = fs
             /\ inv' = [inv EXCEPT ![i].phase = "exited", ![i].exit = exit]
    /\ UNCHANGED loop

\* The renderer subprocess never ends: execSync has no timeout
RendererHangs(i) ==
    /\ inv[i].phase = "exec"
    /\ inv' = [inv EXCEPT ![i].phase = "hung"]
    /\ UNCHANGED <<fs, loop>>

\* The handler runs from the return of execSync to its own return
Finish(i) ==
    /\ inv[i].phase = "exited"
    /\ LET r == Collect(fs, inv[i].op, inv[i].executionId, inv[i].markdown,
                        inv[i].theme, inv[i].exit)
       IN  inv' = [inv EXCEPT ![i].phase = "returned",
                              ![i].response = r.response,
                              ![i].touched = @ \cup r.touched]
    /\ loop' = 0
    /\ UNCHANGED fs

(* ------------------------------ mini-app ------------------------------- *)

VARIABLES
    markdownInput,       \* markdownInput.value
    themeSelect,         \* themeSelect.value
    currentExecutionId,  \* null is <<>>
    slidesContainer,     \* the child nodes of #slides-container
    pdfStatus,           \* the child nodes of #pdf-status
    btn,                 \* the three trigger controls
    awaiting,            \* the invocations whose callServerTool is not settled
    alertOpen,           \* the message of the open alert(), <<>> when none
    pushed               \* the invocations whose result the host has pushed

appVars == <<markdownInput, themeSelect, currentExecutionId, slidesContainer,
             pdfStatus, btn, awaiting, alertOpen, pushed>>

vars == <<inv, fs, loop, markdownInput, themeSelect, currentExecutionId,
          slidesContainer, pdfStatus, btn, awaiting, alertOpen, pushed>>

Handlers == { "regen", "pdf", "pptx" }

ToolOf(h) ==
    CASE h = "regen" -> "generateSlide"
      [] h = "pdf" -> "generateSlidePDF"
      [] h = "pptx" -> "generateSlidePPTX"

IdleLabel(h) ==
    CASE h = "regen" -> <<"Regenerate with Theme">>
      [] h = "pdf" -> <<"Generate PDF">>
      [] h = "pptx" -> <<"Generate PPTX">>

BusyLabel(h) ==
    CASE h = "regen" -> <<"Regenerating...">>
      [] h = "pdf" -> <<"Generating PDF...">>
      [] h = "pptx" -> <<"Generating PPTX...">>

TextNode(t) == [node |-> "text", value |-> t]

ImgNode(src) == [node |-> "img", value |-> src]

HtmlNode(html) == [node |-> "html", value |-> html]

UrlContainer(dataUrl) == [node |-> "urlContainer", value |-> dataUrl]

Placeholder == TextNode(<<"Regenerating slides...">>)

NoImagesText == TextNode(<<"[ERROR] No images found">>)

PopulateFirst == <<"Please populate markdown first">>

GenerateFirst == <<"Please generate slides first">>

UnknownError == <<"Unknown error">>

\* Mutant: the handler leaves its control enabled
DisableButton_none(b, h) == b

\* x.disabled = true; x.textContent = the busy label
DisableButton(b, h) == [b EXCEPT ![h] = [disabled |-> TRUE, textContent |-> BusyLabel(h)]]

\* A handler without the finally block: the control stays as it was
RestoreButton_kept(b, h) == b

\* The finally block: x.disabled = false; x.textContent = the idle label
RestoreButton(b, h) == [b EXCEPT ![h] = [disabled |-> FALSE, textContent |-> IdleLabel(h)]]

\* The field's text taken as typed, without trim()
InputMarkdown_untrimmed(value) == value

\* const markdown = markdownInput.value.trim()
InputMarkdown(value) == Trim(value)

\* result.isError, undefined when the result has no such property
IsError(result) == "isError" \in DOMAIN result /\ result.isError

RECURSIVE PartsOfType(_, _)
PartsOfType(content, type) ==
    IF content = <<>> THEN <<>>
    ELSE IF Head(content).type = type
         THEN <<Head(content)>> \o PartsOfType(Tail(content), type)
         ELSE PartsOfType(Tail(content), type)

\* content?.[0]?.type === "text" ? content[0].text : "Unknown error"
FirstTextOrUnknown(result) ==
    IF Len(result.content) >= 1 /\ result.content[1].type = "text"
    THEN result.content[1].text
    ELSE UnknownError

\* error instanceof Error ? error.message : "Unknown error"
ErrorMsg(thrown) == IF thrown.isErrorObject THEN thrown.message ELSE UnknownError

ErrorObject(message) == [isErrorObject |-> TRUE, message |-> message]

\* Mutant: only the first image part is rendered
DisplaySlides_firstOnly(container, result) ==
    LET images == PartsOfType(result.content, "image")
    IN  IF images = <<>> THEN <<NoImagesText>>
        ELSE Append(container, ImgNode(<<"data:image/png;base64,">> \o images[1].data))

\* displaySlides: the image parts appended to the container, or the container's
\* text replaced when there is none
DisplaySlides(container, result) ==
    LET images == PartsOfType(result.content, "image")
    IN  IF images = <<>> THEN <<NoImagesText>>
        ELSE container \o
             [k \in 1..Len(images) |->
                ImgNode(<<"data:image/png;base64,">> \o images[k].data)]

\* What a settled callServerTool hands to the handler: a result, or a throw
Resolved(result) == [kind |-> "result", result |-> result, thrown |-> ErrorObject(<<>>)]

Rejected(thrown) == [kind |-> "thrown", result |-> NoResponse, thrown |-> thrown]

\* handleRegenerate from the settled call to the end of its try/catch: the
\* new children of the slides container
RegenerateSettled(container, settled) ==
    IF settled.kind = "thrown"
    THEN <<TextNode(<<"Error: ">> \o ErrorMsg(settled.thrown))>>
    ELSE IF IsError(settled.result)
    THEN <<TextNode(<<"Error: ">> \o FirstTextOrUnknown(settled.result))>>
    ELSE DisplaySlides(container, settled.result)

ExportName(h) == IF h = "pdf" THEN "PDF" ELSE "PPTX"

DataUrlPrefix(h) ==
    <<"data:", MimeType(ToolOf(h)), ";base64,">>

ExceptionNode(msg) == HtmlNode(<<"<br><strong>Exception:</strong> ">> \o msg)

\* handleGeneratePdf and handleGeneratePptx from the settled call to the end
\* of their try/catch: the new children of the status element
ExportSettled(status, h, settled) ==
    IF settled.kind = "thrown"
    THEN Append(status, ExceptionNode(ErrorMsg(settled.thrown)))
    ELSE IF IsError(settled.result)
    THEN status \o
         << HtmlNode(<<"<br><strong>Error:</strong> ">> \o FirstTextOrUnknown(settled.result)),
            ExceptionNode(FirstTextOrUnknown(settled.result)) >>
    ELSE
        LET resources == PartsOfType(settled.result.content, "resource")
        IN  IF resources = <<>>
            THEN Append(status, ExceptionNode(<<"No ", ExportName(h), " resource found in response">>))
            ELSE IF resources[1].resource.blob = <<>>
            THEN Append(status, ExceptionNode(<<"Invalid ", ExportName(h), " data">>))
            ELSE Append(status, UrlContainer(DataUrlPrefix(h) \o resources[1].resource.blob))


(* -------------------------- mini-app actions --------------------------- *)

\* app.callServerTool({ name, arguments: { markdown, theme } }): the request
\* leaves for the server and the handler waits for it to settle
CallServerTool(h, markdown, theme) ==
    /\ Len(inv) < MaxInv
    /\ Accept(ToolOf(h), markdown, theme, h)
    /\ awaiting' = awaiting \cup { Len(inv) + 1 }

\* A click on the regenerate control: handleRegenerate up to its await
ClickRegenerate ==
    /\ alertOpen = <<>>
    /\ ~btn["regen"].disabled
    /\ LET markdown == InputMarkdown(markdownInput)
           theme == themeSelect
       IN  IF markdown = <<>>
           THEN /\ alertOpen' = PopulateFirst
                /\ UNCHANGED <<inv, awaiting, btn, slidesContainer>>
           ELSE /\ btn' = DisableButton(btn, "regen")
                /\ slidesContainer' = <<Placeholder>>
                /\ CallServerTool("regen", markdown, theme)
                /\ UNCHANGED alertOpen
    /\ UNCHANGED <<fs, loop, markdownInput, themeSelect, currentExecutionId,
                   pdfStatus, pushed>>

\* A click on the PDF control: handleGeneratePdf up to its await, or through
\* its early returns
ClickPdf ==
    /\ alertOpen = <<>>
    /\ ~btn["pdf"].disabled
    /\ IF currentExecutionId = <<>>
       THEN /\ alertOpen' = GenerateFirst
            /\ UNCHANGED <<inv, awaiting, btn, pdfStatus>>
       ELSE LET markdown == InputMarkdown(markdownInput)
                theme == themeSelect
            IN  IF markdown = <<>>
                THEN /\ pdfStatus' = <<TextNode(PopulateFirst)>>
                     /\ btn' = RestoreButton(DisableButton(btn, "pdf"), "pdf")
                     /\ UNCHANGED <<inv, awaiting, alertOpen>>
                ELSE /\ btn' = DisableButton(btn, "pdf")
                     /\ pdfStatus' =
                          <<HtmlNode(<<"<strong>Generating PDF with theme: ", theme,
                                       "</strong>">>)>>
                     /\ CallServerTool("pdf", markdown, theme)
                     /\ UNCHANGED alertOpen
    /\ UNCHANGED <<fs, loop, markdownInput, themeSelect, currentExecutionId,
                   slidesContainer, pushed>>

PptxBanner(theme) ==
    HtmlNode(<<"<br><strong>Generating PPTX with theme: ", theme, "</strong>">>)

\* A click on the PPTX control: handleGeneratePptx up to its await, or through
\* its early return
ClickPptx ==
    /\ alertOpen = <<>>
    /\ ~btn["pptx"].disabled
    /\ LET markdown == InputMarkdown(markdownInput)
           theme == themeSelect
       IN  IF markdown = <<>>
           THEN /\ pdfStatus' = <<PptxBanner(themeSelect), HtmlNode(<<"<br>">> \o PopulateFirst)>>
                /\ btn' = RestoreButton(DisableButton(btn, "pptx"), "pptx")
                /\ UNCHANGED <<inv, awaiting>>
           ELSE /\ btn' = DisableButton(btn, "pptx")
                /\ pdfStatus' = <<PptxBanner(themeSelect)>>
                /\ CallServerTool("pptx", markdown, theme)
    /\ UNCHANGED <<fs, loop, markdownInput, themeSelect, currentExecutionId,
                   slidesContainer, alertOpen, pushed>>

\* The handler that waits for invocation i runs from its await to its end
Settle(i, settled) ==
    /\ i \in awaiting
    /\ alertOpen = <<>>
    /\ LET h == inv[i].caller
       IN  /\ IF h = "regen"
              THEN /\ slidesContainer' = RegenerateSettled(slidesContainer, settled)
                   /\ UNCHANGED pdfStatus
              ELSE /\ pdfStatus' = ExportSettled(pdfStatus, h, settled)
                   /\ UNCHANGED slidesContainer
           /\ btn' = RestoreButton(btn, h)
    /\ awaiting' = awaiting \ { i }
    /\ UNCHANGED <<inv, fs, loop, markdownInput, themeSelect, currentExecutionId,
                   alertOpen, pushed>>

\* callServerTool resolves with what the tool handler returned
Resolve(i) ==
    /\ i \in Invocations
    /\ inv[i].phase = "returned"
    /\ Settle(i, Resolved(inv[i].response))

\* Results the protocol layer answers with in place of the handler's: flagged
\* as errors, with or without a text part
FlaggedResults ==
    { [content |-> <<TextPart(<<"MCP error -32602: Input validation error">>)>>,
       isError |-> TRUE],
      [content |-> <<>>, isError |-> TRUE] }

\* callServerTool resolves with an error-flagged result
ResolveFlagged(i) ==
    \E r \in FlaggedResults : Settle(i, Resolved(r))

\* What a rejected callServerTool throws: an Error, or a value that is none
Thrown ==
    { ErrorObject(<<"Connection closed">>),
      [isErrorObject |-> FALSE, message |-> <<>>] }

\* callServerTool rejects
Reject(i) ==
    \E t \in Thrown : Settle(i, Rejected(t))

\* Mutant: the identifier is taken from any result with a text part
OnToolResult_anyText(i) ==
    /\ i \in Invocations \ pushed
    /\ inv[i].caller = "host"
    /\ inv[i].phase = "returned"
    /\ alertOpen = <<>>
    /\ LET result == inv[i].response
           textContents == PartsOfType(result.content, "text")
           params == IF Len(textContents) >= 2
                     THEN JsonParse(textContents[2].text)
                     ELSE [ok |-> FALSE, markdown |-> <<>>, theme |-> ""]
       IN  /\ currentExecutionId' =
                IF Len(textContents) >= 1 THEN textContents[1].text
                ELSE currentExecutionId
           /\ markdownInput' = IF params.ok THEN params.markdown ELSE markdownInput
           /\ themeSelect' = IF params.ok THEN params.theme ELSE themeSelect
           /\ slidesContainer' = DisplaySlides(<<>>, result)
    /\ pushed' = pushed \cup { i }
    /\ UNCHANGED <<inv, fs, loop, pdfStatus, btn, awaiting, alertOpen>>

\* app.ontoolresult: the host pushes the result of a tool call of its own
OnToolResult(i) ==
    /\ i \in Invocations \ pushed
    /\ inv[i].caller = "host"
    /\ inv[i].phase = "returned"
    /\ alertOpen = <<>>
    /\ LET result == inv[i].response
           textContents == PartsOfType(result.content, "text")
           params == IF Len(textContents) >= 2
                     THEN JsonParse(textContents[2].text)
                     ELSE [ok |-> FALSE, markdown |-> <<>>, theme |-> ""]
       IN  /\ currentExecutionId' =
                IF Len(textContents) >= 2 THEN textContents[1].text
                ELSE currentExecutionId
           /\ markdownInput' = IF params.ok THEN params.markdown ELSE markdownInput
           /\ themeSelect' = IF params.ok THEN params.theme ELSE themeSelect
           /\ slidesContainer' = DisplaySlides(<<>>, result)
    /\ pushed' = pushed \cup { i }
    /\ UNCHANGED <<inv, fs, loop, pdfStatus, btn, awaiting, alertOpen>>

\* The user edits the document text
EditMarkdown(markdown) ==
    /\ alertOpen = <<>>
    /\ markdownInput' = markdown
    /\ UNCHANGED <<inv, fs, loop, themeSelect, currentExecutionId, slidesContainer,
                   pdfStatus, btn, awaiting, alertOpen, pushed>>

\* The user selects a theme
SelectTheme(theme) ==
    /\ alertOpen = <<>>
    /\ themeSelect' = theme
    /\ UNCHANGED <<inv, fs, loop, markdownInput, currentExecutionId, slidesContainer,
                   pdfStatus, btn, awaiting, alertOpen, pushed>>

\* The user closes the alert: alert() returns and the handler with it
DismissAlert ==
    /\ alertOpen # <<>>
    /\ alertOpen' = <<>>
    /\ UNCHANGED <<inv, fs, loop, markdownInput, themeSelect, currentExecutionId,
                   slidesContainer, pdfStatus, btn, awaiting, pushed>>

\* A tool call of the host, for the agent, reaches the server
ToolCall(op, markdown, theme, cap) ==
    /\ Len(inv) < cap
    /\ Accept(op, markdown, theme, "host")
    /\ UNCHANGED <<fs, loop>>
    /\ UNCHANGED appVars

(* --------------------------- specifications ---------------------------- *)

\* The project directory, with or without a work directory left by an
\* earlier run
InitialFs ==
    { (<<>> :> DirNode(<<>>)),
      (<<>> :> DirNode(WorkDir)) @@ (WorkDir :> DirNode(<<>>)) }

AppInit ==
    /\ markdownInput = <<>>
    /\ themeSelect = "default"
    /\ currentExecutionId = <<>>
    /\ slidesContainer = <<>>
    /\ pdfStatus = <<>>
    /\ btn = [h \in Handlers |-> [disabled |-> FALSE, textContent |-> IdleLabel(h)]]
    /\ awaiting = {}
    /\ alertOpen = <<>>
    /\ pushed = {}

\* The full system: the host, the server, the renderer and the mini-app.
Init ==
    /\ inv = <<>>
    /\ fs = (<<>> :> DirNode(<<>>))
    /\ loop = 0
    /\ AppInit

Next ==
    \/ \E markdown \in HostTexts, theme \in Themes :
            ToolCall("generateSlide", markdown, theme, MaxInv)
    \/ \E i \in Invocations : Begin(i, OneFreshId, {TRUE}) /\ UNCHANGED appVars
    \/ \E i \in Invocations :
            RendererExit(i, {"exit0", "nonzero"}, MaxImages, {FALSE}) /\ UNCHANGED appVars
    \/ \E i \in Invocations : RendererHangs(i) /\ UNCHANGED appVars
    \/ \E i \in Invocations : Finish(i) /\ UNCHANGED appVars
    \/ ClickRegenerate
    \/ ClickPdf
    \/ ClickPptx
    \/ \E i \in Invocations : Resolve(i)
    \/ \E i \in Invocations : ResolveFlagged(i)
    \/ \E i \in Invocations : Reject(i)
    \/ \E i \in Invocations : OnToolResult(i)
    \/ \E markdown \in TypedTexts : EditMarkdown(markdown)
    \/ \E theme \in Themes : SelectTheme(theme)
    \/ DismissAlert

Spec == Init /\ [][Next]_vars

\* The server alone, under every caller: any tool, any sample text, any
\* identifier, a disk that may refuse, a renderer that may fail.
ServerInit ==
    /\ inv = <<>>
    /\ fs \in InitialFs
    /\ loop = 0
    /\ AppInit

ServerNext ==
    \/ \E op \in Ops, markdown \in Markdowns, theme \in Themes :
            ToolCall(op, markdown, theme, MaxInv)
    \/ \E i \in Invocations : Begin(i, FreshIds, BOOLEAN) /\ UNCHANGED appVars
    \/ \E i \in Invocations : RendererExit(i, Exits, MaxImages, {FALSE}) /\ UNCHANGED appVars
    \/ \E i \in Invocations : RendererHangs(i) /\ UNCHANGED appVars
    \/ \E i \in Invocations : Finish(i) /\ UNCHANGED appVars

ServerSpec == ServerInit /\ [][ServerNext]_vars

\* One generateSlide call whose renderer leaves up to MaxSlides image files,
\* listed in any of the listing orders, with or without a file that is no image.
ImagesNext ==
    \/ \E markdown \in Markdowns, theme \in Themes :
            ToolCall("generateSlide", markdown, theme, 1)
    \/ \E i \in Invocations : Begin(i, FreshIds, BOOLEAN) /\ UNCHANGED appVars
    \/ \E i \in Invocations : RendererExit(i, Exits, MaxSlides, BOOLEAN) /\ UNCHANGED appVars
    \/ \E i \in Invocations : Finish(i) /\ UNCHANGED appVars

ImagesSpec == ServerInit /\ [][ImagesNext]_vars

\* The same call made by the host, whose result the host then pushes to the
\* mini-app.
PushNext ==
    \/ ImagesNext
    \/ \E i \in Invocations : OnToolResult(i)

PushSpec == ServerInit /\ [][PushNext]_vars

\* The execution directory an earlier call left behind (the handlers keep
\* theirs), with its slides.md
LeftoverId == UUIDNames[1]

LeftoverMarkdown == <<"b">>

LeftoverFs ==
    (<<>> :> DirNode(WorkDir)) @@
    (WorkDir :> DirNode(<<LeftoverId>>)) @@
    (ExecutionDir(LeftoverId) :> DirNode(<<SlidesMd>>)) @@
    (Join(ExecutionDir(LeftoverId), SlidesMd) :> FileNode(UTF8(LeftoverMarkdown)))

CollisionInit ==
    /\ inv = <<>>
    /\ fs = LeftoverFs
    /\ loop = 0
    /\ AppInit

\* The server when randomUUID may return an identifier that is already the
\* name of a directory under the work directory.
CollisionNext ==
    \/ \E op \in Ops, markdown \in Markdowns, theme \in Themes :
            ToolCall(op, markdown, theme, MaxInv)
    \/ \E i \in Invocations : Begin(i, UUIDs, {TRUE}) /\ UNCHANGED appVars
    \/ \E i \in Invocations :
            RendererExit(i, {"exit0", "nonzero"}, MaxImages, {FALSE}) /\ UNCHANGED appVars
    \/ \E i \in Invocations : Finish(i) /\ UNCHANGED appVars

CollisionSpec == CollisionInit /\ [][CollisionNext]_vars

(* ------------------------------- claims -------------------------------- *)

Returned(i) == inv[i].phase = "returned"

\* The renderer of invocation i exited 0
RenderedOk(i) == Returned(i) /\ inv[i].exit = "exit0"

\* The image files the renderer of invocation i left
PngCount(i) == Len(FilterPng(inv[i].product.names))

ExportDirOf(i) == <<WorkDir[1], inv[i].executionId, SlidesExport>>

DocumentPathOf(i) == <<WorkDir[1], inv[i].executionId, DocumentName(inv[i].op)>>

IsSingleFailureText(i) ==
    /\ Len(inv[i].response.content) = 1
    /\ inv[i].response.content[1].type = "text"
    /\ LET text == inv[i].response.content[1].text
           prefix == CASE inv[i].op = "generateSlide" -> "Failed to generate slides: "
                       [] inv[i].op = "generateSlidePDF" -> "Failed to generate PDF: "
                       [] inv[i].op = "generateSlidePPTX" -> "Failed to generate PPTX: "
       IN  Len(text) >= 2 /\ text[1] = prefix

\* C1: when the renderer leaves N image files 1.png .. N.png in the export
\* directory, generateSlide returns the two metadata text parts followed by
\* exactly N image parts, the k-th carrying the bytes of k.png.
C1_ImagesInNumericOrder ==
    \A i \in Invocations :
        (RenderedOk(i) /\ inv[i].op = "generateSlide" /\ inv[i].product.kind = "files") =>
            LET content == inv[i].response.content
                n == PngCount(i)
            IN  /\ Len(content) = n + 2
                /\ content[1] = [type |-> "text", text |-> inv[i].executionId]
                /\ content[2].type = "text"
                /\ \A k \in 1..n :
                    /\ content[k + 2].type = "image"
                    /\ content[k + 2].mimeType = "image/png"
                    /\ Base64Decode(content[k + 2].data)
                         = fs[Append(ExportDirOf(i), PngName(k))].data

\* A call has returned ten or more images whose directory listed 10.png
\* before 2.png.
C1_Witness ==
    \E i \in Invocations :
        /\ RenderedOk(i) /\ inv[i].op = "generateSlide"
        /\ PngCount(i) >= 10
        /\ Len(inv[i].response.content) = PngCount(i) + 2
        /\ LET names == fs[ExportDirOf(i)].entries
           IN  \E a, b \in 1..Len(names) :
                 a < b /\ names[a] = PngName(10) /\ names[b] = PngName(2)

\* C2: when the renderer exits non-zero or execSync throws, each of the three
\* tools returns exactly one part, a text part with the failure message.
C2_FailureIsOneText ==
    \A i \in Invocations :
        (Returned(i) /\ inv[i].exit \in { "nonzero", "spawnerror" }) =>
            IsSingleFailureText(i)

\* generateSlide has returned after a renderer that exited non-zero, and a
\* document tool after an execSync that threw.
C2_Witness ==
    \E i, j \in Invocations :
        /\ Returned(i) /\ inv[i].op = "generateSlide" /\ inv[i].exit = "nonzero"
        /\ Returned(j) /\ inv[j].op # "generateSlide" /\ inv[j].exit = "spawnerror"
        /\ Len(inv[i].response.content) = 1
        /\ Len(inv[j].response.content) = 1

HasId(i) == inv[i].executionId # <<>>

OwnDirOf(i) == <<WorkDir[1], inv[i].executionId>>

\* The response of invocation i carries what the renderer makes of i's own
\* document and theme, and i's own identifier
DerivedFromOwnInput(i) ==
    LET content == inv[i].response.content
        src == UTF8(inv[i].markdown)
    IN  IF inv[i].op = "generateSlide"
        THEN /\ content[1].text = inv[i].executionId
             /\ JsonParse(content[2].text)
                  = [ok |-> TRUE, markdown |-> inv[i].markdown, theme |-> inv[i].theme]
             /\ \A k \in 3..Len(content) :
                  Base64Decode(content[k].data)
                    = RenderBytes("generateSlide", k - 2, src, inv[i].theme)
        ELSE Base64Decode(content[1].resource.blob)
               = RenderBytes(inv[i].op, 1, src, inv[i].theme)

\* C3: every invocation has an identifier of its own and works only in the
\* work directory's own subdirectory of that name: no two invocations share an
\* identifier, no invocation reads or writes under another's directory, and a
\* successful response carries only what was rendered from its own input.
C3_OwnStagingDirectory ==
    /\ \A i, j \in Invocations :
        (i # j /\ HasId(i) /\ HasId(j)) =>
            /\ inv[i].executionId # inv[j].executionId
            /\ \A p \in inv[i].touched : ~IsPrefix(OwnDirOf(j), p)
    /\ \A i \in Invocations :
        \A p \in inv[i].touched : p = WorkDir \/ IsPrefix(OwnDirOf(i), p)
    /\ \A i \in Invocations :
        (RenderedOk(i) /\ inv[i].product.kind = "files") => DerivedFromOwnInput(i)

\* Two generateSlide calls with the same document and theme have both
\* rendered and returned, under different identifiers.
C3_Witness ==
    \E i, j \in Invocations :
        /\ i # j
        /\ inv[i].op = "generateSlide" /\ inv[j].op = "generateSlide"
        /\ inv[i].markdown = inv[j].markdown /\ inv[i].theme = inv[j].theme
        /\ RenderedOk(i) /\ RenderedOk(j)
        /\ PngCount(i) >= 1 /\ PngCount(j) >= 1
        /\ inv[i].response.content[1] # inv[j].response.content[1]
        /\ SubSeq(inv[i].response.content, 2, 3) = SubSeq(inv[j].response.content, 2, 3)

\* C4: while the renderer of one invocation runs, or hangs, the handler of
\* another accepted call can start.
C4_OthersCanStart ==
    \A i, j \in Invocations :
        (inv[i].phase \in { "exec", "hung" } /\ inv[j].phase = "pending") =>
            ENABLED Begin(j, FreshIds, BOOLEAN)

\* C7: a successful generateSlidePDF or generateSlidePPTX call returns exactly
\* one part, a resource part whose payload decodes to the bytes of the output
\* file in its own staging directory and whose MIME type is that of its format.
C7_DocumentPayload ==
    \A i \in Invocations :
        (RenderedOk(i) /\ inv[i].op # "generateSlide" /\ DocumentPathOf(i) \in DOMAIN fs) =>
            LET content == inv[i].response.content
            IN  /\ Len(content) = 1
                /\ content[1].type = "resource"
                /\ Base64Decode(content[1].resource.blob) = fs[DocumentPathOf(i)].data
                /\ content[1].resource.mimeType =
                     IF inv[i].op = "generateSlidePDF" THEN "application/pdf"
                     ELSE "application/vnd.openxmlformats-officedocument.presentationml.presentation"

\* A PDF and a PPTX have both been returned, one of them of a length that
\* needs padding.
C7_Witness ==
    \E i, j \in Invocations :
        /\ RenderedOk(i) /\ inv[i].op = "generateSlidePDF"
        /\ RenderedOk(j) /\ inv[j].op = "generateSlidePPTX"
        /\ DocumentPathOf(i) \in DOMAIN fs /\ DocumentPathOf(j) \in DOMAIN fs
        /\ Len(fs[DocumentPathOf(i)].data) % 3 # 0
        /\ Len(inv[i].response.content) = 1 /\ Len(inv[j].response.content) = 1
        /\ inv[i].response.content[1].resource.mimeType
             # inv[j].response.content[1].resource.mimeType

OutputMissing(i) ==
    IF inv[i].op = "generateSlide" THEN ExportDirOf(i) \notin DOMAIN fs
    ELSE DocumentPathOf(i) \notin DOMAIN fs

OutputEmpty(i) ==
    /\ inv[i].op = "generateSlide"
    /\ ExportDirOf(i) \in DOMAIN fs
    /\ FilterPng(fs[ExportDirOf(i)].entries) = <<>>

\* C9 as stated: when the renderer exits 0 and the output is missing or, for
\* generateSlide, the export directory holds no image file, the tool returns
\* the single failure text part.
C9_MissingOrEmptyIsFailure ==
    \A i \in Invocations :
        (RenderedOk(i) /\ (OutputMissing(i) \/ OutputEmpty(i))) => IsSingleFailureText(i)

\* C9 as amended: a missing export directory or output file gives the single
\* failure text part; an export directory without image files gives the two
\* metadata text parts and no image part.
C9_MissingIsFailureEmptyIsNot ==
    \A i \in Invocations :
        /\ (RenderedOk(i) /\ OutputMissing(i)) => IsSingleFailureText(i)
        /\ (RenderedOk(i) /\ OutputEmpty(i)) =>
            /\ Len(inv[i].response.content) = 2
            /\ inv[i].response.content[1] = [type |-> "text", text |-> inv[i].executionId]
            /\ inv[i].response.content[2].type = "text"
            /\ JsonParse(inv[i].response.content[2].text).ok

\* generateSlide has returned once from a missing export directory and once
\* from one without image files.
C9_Witness ==
    \E i, j \in Invocations :
        /\ inv[i].op = "generateSlide" /\ RenderedOk(i) /\ OutputMissing(i)
        /\ Len(inv[i].response.content) = 1
        /\ inv[j].op = "generateSlide" /\ RenderedOk(j) /\ OutputEmpty(j)
        /\ Len(inv[j].response.content) = 2

\* The handler of control h waits for its remote call
InFlight(h) == \E i \in awaiting : inv[i].caller = h

\* C5: a trigger control is disabled only while its handler waits for the
\* remote call; once the handler has completed, by an early return, a result
\* of any kind or a rejected call, the control is enabled again and carries
\* its idle label.
C5_ControlReenabled ==
    \A h \in Handlers :
        ~InFlight(h) => (~btn[h].disabled /\ btn[h].textContent = IdleLabel(h))

\* A regenerate has ended in a rejected call, a PPTX export in the early
\* return on blank input, and both controls are enabled again.
C5_Witness ==
    /\ slidesContainer = <<TextNode(<<"Error: ", "Connection closed">>)>>
    /\ Len(pdfStatus) = 2 /\ pdfStatus[2] = HtmlNode(<<"<br>">> \o PopulateFirst)
    /\ \A h \in Handlers : ~InFlight(h) /\ ~btn[h].disabled

\* The field's text is empty or white space only
Blank(value) == \A k \in 1..Len(value) : IsSpace(value[k])

\* The status element ends with the message
StatusShows(status, message) ==
    /\ status # <<>>
    /\ EndsWith(status[Len(status)].value, message)

\* C6: a click on any of the three controls while the field's text is blank
\* sends no request to the server and leaves no call pending; an alert opens
\* or the status element shows the message instead.
C6_BlankInputNoRemoteCall ==
    [][ (Blank(markdownInput) /\ (ClickRegenerate \/ ClickPdf \/ ClickPptx)) =>
            /\ inv' = inv
            /\ awaiting' = awaiting
            /\ \/ alertOpen' # <<>>
               \/ StatusShows(pdfStatus', PopulateFirst) ]_vars

\* The field holds white space only, the PDF control has been clicked with an
\* identifier known, the status element shows the message and nothing was sent
\* for the mini-app.
C6_Witness ==
    /\ markdownInput = <<" ">>
    /\ currentExecutionId # <<>>
    /\ pdfStatus = <<TextNode(PopulateFirst)>>
    /\ \A i \in Invocations : inv[i].caller = "host"

\* The renderer of invocation i failed: a non-zero exit or a failed spawn
RendererFailed(i) == Returned(i) /\ inv[i].exit \in { "nonzero", "spawnerror" }

\* C8: the response to a call whose renderer failed is flagged as an error,
\* and a regenerate that it answers displays "Error: " followed by the
\* response's first text part.
C8_FailureIsFlagged ==
    \A i \in Invocations :
        RendererFailed(i) =>
            /\ IsError(inv[i].response)
            /\ RegenerateSettled(<<Placeholder>>, Resolved(inv[i].response)) =
                    <<TextNode(<<"Error: ">> \o inv[i].response.content[1].text)>>

\* C10: when no regenerate waits for its remote call, the slides container
\* does not show the placeholder that handleRegenerate put there.
C10_PlaceholderReplaced ==
    ~InFlight("regen") =>
        \A k \in 1..Len(slidesContainer) : slidesContainer[k] # Placeholder

\* The host pushes the result of invocation i in this step
Pushes(i) == i \notin pushed /\ i \in pushed'

\* Invocation i is a generateSlide call that returned from its try block
SlidesReturned(i) ==
    inv[i].op = "generateSlide" /\ RenderedOk(i) /\ ~OutputMissing(i)

\* C11: a successful generateSlide response carries the identifier text
\* part, the serialized { markdown, theme } text part, then only image parts;
\* when the host pushes it, the mini-app takes its identifier from the first
\* part, sets the field and the theme selector to the markdown and theme of the
\* call, and shows every image part, in the order of the response.
C11_PositionsAgree ==
    [][ \A i \in Invocations :
          (SlidesReturned(i) /\ Pushes(i)) =>
            LET content == inv[i].response.content
                n == Len(content) - 2
            IN  /\ n >= 0
                /\ content[1] = TextPart(inv[i].executionId)
                /\ content[2] = TextPart(JsonStringify(inv[i].markdown, inv[i].theme))
                /\ \A k \in 1..n : content[k + 2].type = "image"
                /\ currentExecutionId' = inv[i].executionId
                /\ markdownInput' = inv[i].markdown
                /\ themeSelect' = inv[i].theme
                /\ n >= 1 =>
                     /\ Len(slidesContainer') = n
                     /\ \A k \in 1..n :
                          slidesContainer'[k] =
                            ImgNode(<<"data:image/png;base64,">> \o content[k + 2].data)
      ]_vars

\* The host has pushed a response with several images, made from a text with
\* a line break and the second theme, and the mini-app holds all of it.
C11_Witness ==
    \E i \in pushed :
        /\ SlidesReturned(i)
        /\ PngCount(i) >= 2
        /\ Len(slidesContainer) = PngCount(i)
        /\ currentExecutionId = inv[i].executionId
        /\ markdownInput = <<" ", "a", "\n", "b">>
        /\ themeSelect = "seriph"

\* C12: an invocation whose identifier is the name of a directory that was
\* already there fails at mkdirSync: it returns the failure text without having
\* run the renderer, and the slides.md of that directory is as it was.
C12_CollisionFails ==
    \A i \in Invocations :
        inv[i].executionId = LeftoverId =>
            /\ inv[i].phase = "returned"
            /\ inv[i].exit = "none"
            /\ IsSingleFailureText(i)
            /\ fs[Join(ExecutionDir(LeftoverId), SlidesMd)] = FileNode(UTF8(LeftoverMarkdown))

\* The handler of invocation i returned without reaching execSync: staging
\* threw
StagingFailed(i) == Returned(i) /\ inv[i].exit = "none"

\* C13 as stated: a call whose staging directories cannot be created ends
\* without a structured response.
C13_StagingFaultUnhandled ==
    \A i \in Invocations :
        StagingFailed(i) => inv[i].response.content = <<>>

\* C13 as amended: a call whose staging directories cannot be created
\* returns the single failure text part with mkdirSync's message, not flagged
\* as an error, and has written no slides.md.
C13_StagingFaultIsCaught ==
    \A i \in Invocations :
        StagingFailed(i) =>
            /\ IsSingleFailureText(i)
            /\ inv[i].response.content[1].text[2] = "EACCES: permission denied, mkdir"
            /\ ~IsError(inv[i].response)
            /\ Join(ExecutionDir(inv[i].executionId), SlidesMd) \notin DOMAIN fs

\* A document call has returned the failure text after a refused mkdirSync,
\* with no execution directory made.
C13_Witness ==
    \E i \in Invocations :
        /\ inv[i].op = "generateSlidePDF"
        /\ StagingFailed(i)
        /\ inv[i].response.content =
              <<TextPart(<<"Failed to generate PDF: ", "EACCES: permission denied, mkdir">>)>>
        /\ ExecutionDir(inv[i].executionId) \notin DOMAIN fs

\* The remote calls of control h that are not settled
InFlightOf(h) == { i \in awaiting : inv[i].caller = h }

\* C14: no control has more than one remote call in flight, and a control
\* with a call in flight is disabled.
C14_OneInFlightPerControl ==
    \A h \in Handlers :
        /\ Cardinality(InFlightOf(h)) <= 1
        /\ InFlightOf(h) # {} => btn[h].disabled

\* A regenerate and a PPTX export are in flight at the same time, each with
\* its control disabled.
C14_Witness ==
    /\ InFlightOf("regen") # {} /\ btn["regen"].disabled
    /\ InFlightOf("pptx") # {} /\ btn["pptx"].disabled

\* The text parts of the response of invocation i
TextPartsOf(i) == PartsOfType(inv[i].response.content, "text")

\* The step sends a generateSlidePDF request for the mini-app
SendsPdfRequest ==
    /\ Len(inv') = Len(inv) + 1
    /\ inv'[Len(inv')].caller = "pdf"

\* C15: the current execution identifier changes only when the host pushes
\* a result with at least two text parts, to the text of the first; once set
\* it is never null again; a generateSlidePDF request is sent only while it is
\* set; and a click on the PDF control while it is null opens the alert, sends
\* nothing and leaves the control enabled.
C15_IdentifierOnlyFromHostPush ==
    [][ /\ currentExecutionId' # currentExecutionId =>
              \E i \in Invocations :
                  /\ Pushes(i)
                  /\ inv[i].caller = "host"
                  /\ Len(TextPartsOf(i)) >= 2
                  /\ currentExecutionId' = TextPartsOf(i)[1].text
        /\ currentExecutionId # <<>> => currentExecutionId' # <<>>
        /\ SendsPdfRequest =>
              /\ currentExecutionId # <<>>
              /\ inv'[Len(inv')].op = "generateSlidePDF"
        /\ (ClickPdf /\ currentExecutionId = <<>>) =>
              /\ alertOpen' = GenerateFirst
              /\ inv' = inv
              /\ awaiting' = awaiting
              /\ btn' = btn /\ ~btn["pdf"].disabled
      ]_vars

\* A user-triggered regenerate has shown its images, no identifier is set,
\* and a click on the PDF control has opened the alert.
C15_Witness ==
    /\ currentExecutionId = <<>>
    /\ alertOpen = GenerateFirst
    /\ ~btn["pdf"].disabled
    /\ \E i \in Invocations \ awaiting :
          /\ inv[i].caller = "regen"
          /\ SlidesReturned(i)
          /\ \E k \in 1..Len(slidesContainer) : slidesContainer[k].node = "img"
    /\ \A i \in Invocations : inv[i].caller # "pdf"

====
